---- MODULE Spec2Model ----
(***************************************************************************)
(* SUR / 3SLS estimation of spreg (src/spreg/sur.py) as a state machine.   *)
(*                                                                         *)
(* A caller holds the argument objects (the dictionaries bigy, bigX, ...)  *)
(* and constructs an estimator twice in succession.  One construction is   *)
(* the run of __init__, cut at the calls it makes.                         *)
(*                                                                         *)
(* Numerical values are named, not computed.  With the cross-products of a *)
(* construction fixed, every matrix it produces is one of a chain          *)
(*     b_0 = per-equation OLS,  E_g = y - X b_g,  S_g = Sigma(E_g),        *)
(*     (b_(g+1), V_(g+1)) = joint GLS solve weighted by S_g,               *)
(* and is written [kind, g].  The log-determinant of S_g is an input of    *)
(* the data: it is drawn when first computed and remembered per design, so *)
(* that the same computation on the same data gives the same number.       *)
(***************************************************************************)
EXTENDS Integers, Sequences, FiniteSets, TLC

MaxIter == 1        \* maxiter is drawn from -1..MaxIter
MaxEps == 1         \* epsilon is drawn from 0..MaxEps (units of log-det)
MaxLdet == 2        \* log-determinants are drawn from 0..MaxLdet
NEq == 2            \* number of equations of the system
NObs == 4           \* number of observations n
NRegimes == 2       \* number of distinct regimes, when regimes is given
LogTwoPiMilli == 1838   \* 1000 * ln(2*pi), rounded

Eqs == 0 .. (NEq - 1)
MaxGen == MaxIter + 2   \* generations a loop bounded by maxiter can reach, plus one
Constructions == {1, 2} \* the caller constructs the estimator twice
MaxiterVals == (0 - 1) .. MaxIter
EpsVals == 0 .. MaxEps
LdetVals == 0 .. MaxLdet

VARIABLES
    args,       \* the caller's argument objects: the dictionaries bigy, bigX,
                \* bigyend, bigq
    given,      \* what args was when the running construction was entered
    cfg,        \* keyword arguments of the running construction
    pc,         \* position of the running construction
    self,       \* attributes of the estimator under construction
    loc,        \* local variables of BaseSUR.__init__
    hist,       \* calls made by the running construction
    err,        \* message of the exception raised by the running construction
    done,       \* the constructions that returned, in order
    ldetMemo,   \* log det(S) of the Sigmas computed so far, per design
    ldiagMemo,  \* sum(log(diag(S))) of the Sigmas computed so far, per design
    w,          \* the weights object handed to symmetrize
    sym         \* the running call of symmetrize: position, locals, and the
                \* calls that returned

vars == <<args, given, cfg, pc, self, loc, hist, err, done, ldetMemo, ldiagMemo,
          w, sym>>

--------------------------------------------------------------------------
(* Values *)

None == [kind |-> "None", g |-> 0 - 1]
NoNum == 0 - 1
NoDict == <<>>
NoTest == [test |-> "None", of |-> <<>>]

\* no weights object, and no call of symmetrize
NoWeights == [transform |-> "None", n |-> 0]
NoSym == [pc |-> "idle", current |-> "None", d |-> None, Di12 |-> None,
          D12 |-> None, returned |-> <<>>]

Matrix(rows, cols, exp) == [rows |-> rows, cols |-> cols, exp |-> exp]

Abs(x) == IF x < 0 THEN 0 - x ELSE x

\* per-equation regressor counts of the systems the caller may hold
KProfiles == {[r \in Eqs |-> 2], [r \in Eqs |-> r + 1]}

\* the cross-product la.inv cannot invert, and its equation: X_r'X_r ("XX"),
\* H_r'H_r with X_r'X_r invertible ("HH"), Zhat_r'Zhat_r with H_r'H_r
\* invertible ("ZHZH"); "none" when every inversion succeeds
NoSingular == [of |-> "none", r |-> 0 - 1]

\* bigyend and bigq are read by ThreeSLS only: one endogenous variable and
\* one instrument per equation
ArgSets ==
    {[bigy    |-> [r \in Eqs |-> Matrix(NObs, 1, 0)],
      bigX    |-> [r \in Eqs |-> Matrix(NObs, k[r], 0)],
      bigyend |-> [r \in Eqs |-> Matrix(NObs, 1, 0)],
      bigq    |-> [r \in Eqs |-> Matrix(NObs, 1, 0)],
      singular |-> NoSingular] : k \in KProfiles}

\* the same dictionaries with columns that are linearly dependent
SingularArgSets ==
    {[a EXCEPT !.singular = [of |-> s, r |-> r]] :
        a \in ArgSets, s \in {"XX", "HH", "ZHZH"}, r \in Eqs}

\* dictionaries that disagree: bigX with a key that bigy has not, bigX without
\* the last key of bigy, bigX[r] with a row less than bigy[r]
MismatchedArgSets ==
    {[a EXCEPT !.bigX = [r \in 0 .. NEq |-> IF r < NEq THEN a.bigX[r] ELSE a.bigX[0]]] :
        a \in ArgSets}
    \cup {[a EXCEPT !.bigX = [r \in 0 .. (NEq - 2) |-> a.bigX[r]]] : a \in ArgSets}
    \cup {[a EXCEPT !.bigX[NEq - 1] = Matrix(NObs - 1, @.cols, 0)] : a \in ArgSets}

\* len(bigy.keys()) and the keys range(n_eq) reads
n_eq_of(bigy) == Cardinality(DOMAIN bigy)

HasKeys(d, n) == \A r \in 0 .. (n - 1) : r \in DOMAIN d

SameRows(a, b) == a.rows = b.rows

\* the products X_r'y_t and X_r'X_t of sur_crossprod are defined
RowsAgree(bigX, bigy) ==
    \A r, t \in 0 .. (n_eq_of(bigy) - 1) :
        bigX[r].rows = bigy[t].rows /\ bigX[r].rows = bigX[t].rows

\* messages of the exceptions that are not raised by sur.py itself
LinAlgError == "Singular matrix"
DimensionMismatch == "dimension mismatch"
KeyError == "KeyError"

\* line 988
SingularInstruments == "ERROR: singular cross product matrix, check instruments"

--------------------------------------------------------------------------
(* sur_utils, as used by sur.py *)

sur_crossprod(bigX, bigy) ==
    [bigXX |-> [X |-> bigX], bigXy |-> [X |-> bigX, y |-> bigy]]

sur_resids(bigy, bigX, b) == [kind |-> "E", g |-> b.g]

sur_predict(bigy, bigX, b) == [kind |-> "YP", g |-> b.g]

sur_est(bigXX, bigXy, bigE, bigK) ==
    [b    |-> [kind |-> "b", g |-> bigE.g + 1],
     varb |-> [kind |-> "V", g |-> bigE.g + 1],
     sig  |-> [kind |-> "S", g |-> bigE.g]]

sur_corr(sig) == [kind |-> "corr", g |-> sig.g]

\* sputils.sphstack: the columns of a followed by those of b
sphstack(a, b) == [rows |-> a.rows, cols |-> a.cols + b.cols, left |-> a, right |-> b]

\* H (H'H)^-1 H' yend of lines 986-990: the columns of yend fitted on H
Fitted(H, yend) == [rows |-> H.rows, cols |-> yend.cols, fit |-> yend, on |-> H]

check_k(bigK) == \A r, t \in DOMAIN bigK : bigK[r] = bigK[t]

(* diagnostics_sur and regimes, as used by sur.py: a test result is named by
   the test and the values it was computed from *)

sur_setp(b, varb) == [test |-> "sur_setp", of |-> <<b, varb>>]

sur_lrtest(n, n_eq, ldetS0, ldetS1) ==
    [test |-> "sur_lrtest", of |-> <<n, n_eq, ldetS0, ldetS1>>]

sur_lmtest(n, n_eq, sig) == [test |-> "sur_lmtest", of |-> <<n, n_eq, sig>>]

surLMe(n_eq, WS, bigE, sig) == [test |-> "surLMe", of |-> <<n_eq, bigE, sig>>]

surLMlag(n_eq, WS, bigy, bigX, bigE, bigYP, sig, varb) ==
    [test |-> "surLMlag", of |-> <<n_eq, bigy, bigX, bigE, bigYP, sig, varb>>]

sur_chow(n_eq, bigK, b, varb) == [test |-> "sur_chow", of |-> <<n_eq, bigK, b, varb>>]

\* REGI._chow_run on the coefficients b[r] and the block [lo, hi) of varb
chow_run(kr, nr, b, r, varb, lo, hi) ==
    [test |-> "_chow_run", of |-> <<kr, nr, b, r, varb, lo, hi>>]

\* REGI.Regimes_Frame.__init__ with every column regime-specific: one copy of
\* each column per regime
Regimes_Frame(x) == Matrix(x.rows, x.cols * NRegimes, x.exp + 1)

\* an expansion whose result does not have the n rows of its input
Regimes_Frame_Short(x) == Matrix(x.rows - 1, x.cols * NRegimes, x.exp + 1)

\* the numbers a memo allows for a key: the remembered one, or any
Known(memo, key, vals) == IF key \in DOMAIN memo THEN {memo[key]} ELSE vals

Remember(memo, key, v) == IF key \in DOMAIN memo THEN memo ELSE memo @@ (key :> v)

SigKey(sig) == <<self.bigXy, sig.g>>

\* la.slogdet(sig)[1]
slogdet(sig) == Known(ldetMemo, SigKey(sig), LdetVals)

\* np.log(np.diag(sig)).sum(); at least log det(sig) (Hadamard)
logdiag(sig, full) == {d \in Known(ldiagMemo, SigKey(sig), LdetVals) : d >= full}

\* 2000 * llik of lines 157-158, so that n/2 and ln(2 pi) stay integers
LogLik(n, n_eq, ldetS1) ==
    0 - (n * (n_eq * (1000 + LogTwoPiMilli) + 1000 * ldetS1))

--------------------------------------------------------------------------
(* State *)

\* the attributes of BaseSUR, SUR, BaseThreeSLS and ThreeSLS, none set yet
BlankSelf ==
    [bigy |-> NoDict, bigX |-> NoDict, n_eq |-> NoNum, n |-> NoNum,
     bigK |-> NoDict, bigXX |-> NoDict, bigXy |-> NoDict,
     bOLS |-> None, olsE |-> None,
     bSUR |-> None, varb |-> None, sig |-> None,
     sig_ols |-> None, ldetS0 |-> NoNum, ldetS1 |-> NoNum,
     niter |-> NoNum, bigE |-> None, bigYP |-> None, corr |-> None,
     llik |-> NoNum,
     regimes_set |-> NoNum, cols2regi_dic |-> NoDict,
     sur_inf |-> NoTest, lrtest |-> NoTest, lmtest |-> NoTest,
     lmEtest |-> NoTest, lmlagtest |-> NoTest, surchow |-> NoTest,
     chow_regimes |-> NoDict, summary |-> FALSE,
     bigZ |-> NoDict, bigZHZH |-> NoDict, bigZHy |-> NoDict,
     b2SLS |-> None, tslsE |-> None, b3SLS |-> None, tsls_inf |-> NoTest]

\* locals of BaseSUR.__init__ (resids, det0, det1, n_iter) and of
\* BaseThreeSLS.__init__ (bigH, bigZhat)
BlankLoc ==
    [resids |-> None, det0 |-> NoNum, det1 |-> NoNum, n_iter |-> NoNum,
     bigH |-> NoDict, bigZhat |-> NoDict]

\* calls so far: of sur_crossprod (a count), of sur_est (the residuals passed, in
\* order, and the cross-products passed, in order), of the per-equation seed
\* solve _sur_ols or _sur_2sls (a count), of sur_resids by _sur_2sls and
\* BaseThreeSLS.__init__ (the design passed, in order)
BlankHist == [sur_crossprod |-> 0, sur_est |-> <<>>, xp |-> <<>>, seed |-> 0,
              resid_on |-> <<>>]

\* keyword arguments: regimes and w say whether the argument is given (not None).
\* lists holds the positional arguments given as lists of column names (none
\* when all are dictionaries), same_len whether those lists are of one length,
\* df whether df is given
Cfg(cls, iter, maxiter, epsilon, regimes, nonspat_diag, spat_diag, has_w) ==
    [cls |-> cls, iter |-> iter, maxiter |-> maxiter, epsilon |-> epsilon,
     regimes |-> regimes, nonspat_diag |-> nonspat_diag, spat_diag |-> spat_diag,
     w |-> has_w, lists |-> {}, same_len |-> TRUE, df |-> FALSE]

NoCfg == Cfg("None", FALSE, 0, 0, FALSE, FALSE, FALSE, FALSE)

BaseSURCalls ==
    {Cfg("BaseSUR", i, m, e, FALSE, FALSE, FALSE, FALSE) :
        i \in BOOLEAN, m \in MaxiterVals, e \in EpsVals}

Init ==
    /\ args \in ArgSets
    /\ given = args
    /\ cfg = NoCfg
    /\ pc = "idle"
    /\ self = BlankSelf
    /\ loc = BlankLoc
    /\ hist = BlankHist
    /\ err = ""
    /\ done = <<>>
    /\ ldetMemo = <<>>
    /\ ldiagMemo = <<>>
    /\ w = NoWeights
    /\ sym = NoSym

--------------------------------------------------------------------------
(* The caller *)

Construct(c) ==
    /\ pc = "idle"
    /\ Len(done) + 1 \in Constructions
    /\ cfg' = c
    /\ given' = args
    /\ self' = BlankSelf
    /\ loc' = BlankLoc
    /\ hist' = BlankHist
    /\ err' = ""
    /\ pc' = c.cls
    /\ UNCHANGED <<w, sym, args, done, ldetMemo, ldiagMemo>>

CallBaseSUR == \E c \in BaseSURCalls : Construct(c)

\* Return handing the object under construction to the caller whatever the end
Return_HandsPartial ==
    /\ pc \in {"return", "raise"}
    /\ args' = IF cfg.lists = {} THEN args ELSE given
    /\ done' = Append(done, [cfg |-> cfg, given |-> given, after |-> args',
                             self |-> self, hist |-> hist, err |-> err,
                             obj |-> self])
    /\ pc' = "idle"
    /\ UNCHANGED <<w, sym, given, cfg, self, loc, hist, err, ldetMemo, ldiagMemo>>

\* the constructor returns the estimator, or its exception reaches the caller,
\* who then holds no estimator (obj is blank).  Dictionaries that sur_dictxy
\* built from lists are local to the call: the caller's data are as given.
Return ==
    /\ pc \in {"return", "raise"}
    /\ args' = IF cfg.lists = {} THEN args ELSE given
    /\ done' = Append(done, [cfg |-> cfg, given |-> given, after |-> args',
                             self |-> self, hist |-> hist, err |-> err,
                             obj |-> IF pc = "return" THEN self ELSE BlankSelf])
    /\ pc' = "idle"
    /\ UNCHANGED <<w, sym, given, cfg, self, loc, hist, err, ldetMemo, ldiagMemo>>

--------------------------------------------------------------------------
(* BaseSUR.__init__ *)

\* BaseSUR_Setup building the cross-products from X as it was before the
\* regime expansion
BaseSUR_Setup_RawX ==
    /\ pc = "BaseSUR"
    /\ HasKeys(args.bigX, n_eq_of(args.bigy))
    /\ RowsAgree(args.bigX, args.bigy)
    /\ LET bigy == args.bigy
           bigX == args.bigX
           n_eq == Cardinality(DOMAIN bigy)
           xp   == sur_crossprod(given.bigX, bigy)
       IN  /\ self' = [self EXCEPT
                  !.bigy = bigy, !.bigX = bigX, !.n_eq = n_eq, !.n = bigy[0].rows,
                  !.bigK = [r \in 0 .. (n_eq - 1) |-> bigX[r].cols],
                  !.bigXX = xp.bigXX, !.bigXy = xp.bigXy]
           /\ hist' = [hist EXCEPT !.sur_crossprod = @ + 1]
    /\ pc' = "ols"
    /\ UNCHANGED <<w, sym, err, args, given, cfg, loc, done, ldetMemo, ldiagMemo>>

\* lines 113-120; bigy and bigX are the caller's dictionaries (for SUR, after
\* lines 452-476 have written to bigX), and self.bigy, self.bigX name them
BaseSUR_Setup ==
    /\ pc = "BaseSUR"
    /\ HasKeys(args.bigX, n_eq_of(args.bigy))
    /\ RowsAgree(args.bigX, args.bigy)
    /\ LET bigy == args.bigy
           bigX == args.bigX
           n_eq == Cardinality(DOMAIN bigy)
           xp   == sur_crossprod(bigX, bigy)
       IN  /\ self' = [self EXCEPT
                  !.bigy = bigy, !.bigX = bigX, !.n_eq = n_eq, !.n = bigy[0].rows,
                  !.bigK = [r \in 0 .. (n_eq - 1) |-> bigX[r].cols],
                  !.bigXX = xp.bigXX, !.bigXy = xp.bigXy]
           /\ hist' = [hist EXCEPT !.sur_crossprod = @ + 1]
    /\ pc' = "ols"
    /\ UNCHANGED <<w, sym, err, args, given, cfg, loc, done, ldetMemo, ldiagMemo>>

\* lines 113-120 when the rows of bigX[r] and bigy[r] differ: sur_crossprod
\* fails and nothing is stored
BaseSUR_SetupMismatch ==
    /\ pc = "BaseSUR"
    /\ HasKeys(args.bigX, n_eq_of(args.bigy))
    /\ ~RowsAgree(args.bigX, args.bigy)
    /\ LET bigy == args.bigy
           bigX == args.bigX
           n_eq == Cardinality(DOMAIN bigy)
       IN  self' = [self EXCEPT
               !.bigy = bigy, !.bigX = bigX, !.n_eq = n_eq, !.n = bigy[0].rows,
               !.bigK = [r \in 0 .. (n_eq - 1) |-> bigX[r].cols]]
    /\ hist' = [hist EXCEPT !.sur_crossprod = @ + 1]
    /\ err' = DimensionMismatch
    /\ pc' = "raise"
    /\ UNCHANGED <<w, sym, args, given, cfg, loc, done, ldetMemo, ldiagMemo>>

\* line 122: _sur_ols, lines 177-181
SurOls ==
    /\ pc = "ols"
    /\ args.singular.of # "XX"
    /\ LET bOLS == [kind |-> "b", g |-> 0]
       IN  self' = [self EXCEPT !.bOLS = bOLS,
                                !.olsE = sur_resids(self.bigy, self.bigX, bOLS)]
    /\ hist' = [hist EXCEPT !.seed = @ + 1]
    /\ pc' = "twostep"
    /\ UNCHANGED <<w, sym, err, args, given, cfg, loc, done, ldetMemo, ldiagMemo>>

\* lines 177-179 when la.inv(reg.bigXX[(r, r)]) fails: numpy's LinAlgError
\* leaves _sur_ols and BaseSUR.__init__ as it is
SurOls_Singular ==
    /\ pc = "ols"
    /\ args.singular.of = "XX"
    /\ hist' = [hist EXCEPT !.seed = @ + 1]
    /\ err' = LinAlgError
    /\ pc' = "raise"
    /\ UNCHANGED <<w, sym, args, given, cfg, self, loc, done, ldetMemo, ldiagMemo>>

\* lines 124-135
TwoStep ==
    /\ pc = "twostep"
    /\ LET est == sur_est(self.bigXX, self.bigXy, self.olsE, self.bigK)
       IN  \E det1 \in slogdet(est.sig) : \E ldetS0 \in logdiag(est.sig, det1) :
             /\ self' = [self EXCEPT !.bSUR = est.b, !.varb = est.varb, !.sig = est.sig,
                                     !.sig_ols = est.sig, !.ldetS0 = ldetS0,
                                     !.ldetS1 = det1]
             /\ loc' = [loc EXCEPT !.resids = sur_resids(self.bigy, self.bigX, est.b),
                                   !.det0 = ldetS0, !.det1 = det1]
             /\ ldetMemo' = Remember(ldetMemo, SigKey(est.sig), det1)
             /\ ldiagMemo' = Remember(ldiagMemo, SigKey(est.sig), ldetS0)
             /\ hist' = [hist EXCEPT !.sur_est = Append(@, self.olsE),
                                     !.xp = Append(@, <<self.bigXX, self.bigXy>>)]
    /\ pc' = "if_iter"
    /\ UNCHANGED <<w, sym, err, args, given, cfg, done>>

\* lines 137-138
IterStart ==
    /\ pc = "if_iter"
    /\ cfg.iter
    /\ loc' = [loc EXCEPT !.n_iter = 0]
    /\ pc' = "while"
    /\ UNCHANGED <<w, sym, err, args, given, cfg, self, hist, done, ldetMemo, ldiagMemo>>

\* NoIter with niter as the class docstring has it (0 for iter=False)
NoIter_DocstringNiter ==
    /\ pc = "if_iter"
    /\ ~cfg.iter
    /\ self' = [self EXCEPT !.niter = 0, !.bigE = loc.resids]
    /\ pc' = "finish"
    /\ UNCHANGED <<w, sym, err, args, given, cfg, loc, hist, done, ldetMemo, ldiagMemo>>

\* NoIter retaining the OLS residuals as bigE
NoIter_OlsResiduals ==
    /\ pc = "if_iter"
    /\ ~cfg.iter
    /\ self' = [self EXCEPT !.niter = 1, !.bigE = self.olsE]
    /\ pc' = "finish"
    /\ UNCHANGED <<w, sym, err, args, given, cfg, loc, hist, done, ldetMemo, ldiagMemo>>

\* lines 152-154
NoIter ==
    /\ pc = "if_iter"
    /\ ~cfg.iter
    /\ self' = [self EXCEPT !.niter = 1, !.bigE = loc.resids]
    /\ pc' = "finish"
    /\ UNCHANGED <<w, sym, err, args, given, cfg, loc, hist, done, ldetMemo, ldiagMemo>>

\* LoopCond without the bound on n_iter
LoopCond_EpsilonOnly == Abs(loc.det1 - loc.det0) > cfg.epsilon

\* LoopCond stopping when n_iter reaches maxiter
LoopCond_StrictMaxiter ==
    Abs(loc.det1 - loc.det0) > cfg.epsilon /\ loc.n_iter < cfg.maxiter

\* line 139
LoopCond == Abs(loc.det1 - loc.det0) > cfg.epsilon /\ loc.n_iter <= cfg.maxiter

\* LoopPass without line 141 (det0 = det1)
LoopPass_KeepsDet0 ==
    /\ pc = "while"
    /\ LoopCond
    /\ loc.n_iter < MaxGen
    /\ LET est == sur_est(self.bigXX, self.bigXy, loc.resids, self.bigK)
       IN  \E det1 \in slogdet(est.sig) :
             /\ self' = [self EXCEPT !.bSUR = est.b, !.varb = est.varb, !.sig = est.sig]
             /\ loc' = [loc EXCEPT !.n_iter = @ + 1,
                                   !.resids = sur_resids(self.bigy, self.bigX, est.b),
                                   !.det1 = det1]
             /\ ldetMemo' = Remember(ldetMemo, SigKey(est.sig), det1)
             /\ hist' = [hist EXCEPT !.sur_est = Append(@, loc.resids),
                                     !.xp = Append(@, <<self.bigXX, self.bigXy>>)]
    /\ pc' = "while"
    /\ UNCHANGED <<w, sym, err, args, given, cfg, done, ldiagMemo>>

\* LoopPass writing the new Sigma into the array sig_ols is bound to (line 129)
LoopPass_SigInPlace ==
    /\ pc = "while"
    /\ LoopCond
    /\ loc.n_iter < MaxGen
    /\ LET est == sur_est(self.bigXX, self.bigXy, loc.resids, self.bigK)
       IN  \E det1 \in slogdet(est.sig) :
             /\ self' = [self EXCEPT !.bSUR = est.b, !.varb = est.varb, !.sig = est.sig,
                                     !.sig_ols = est.sig]
             /\ loc' = [loc EXCEPT !.n_iter = @ + 1, !.det0 = loc.det1,
                                   !.resids = sur_resids(self.bigy, self.bigX, est.b),
                                   !.det1 = det1]
             /\ ldetMemo' = Remember(ldetMemo, SigKey(est.sig), det1)
             /\ hist' = [hist EXCEPT !.sur_est = Append(@, loc.resids),
                                     !.xp = Append(@, <<self.bigXX, self.bigXy>>)]
    /\ pc' = "while"
    /\ UNCHANGED <<w, sym, err, args, given, cfg, done, ldiagMemo>>

\* LoopPass building the cross-products anew for its solve
LoopPass_Recomputes ==
    /\ pc = "while"
    /\ LoopCond
    /\ loc.n_iter < MaxGen
    /\ LET xp  == sur_crossprod(self.bigX, self.bigy)
           est == sur_est(xp.bigXX, xp.bigXy, loc.resids, self.bigK)
       IN  \E det1 \in slogdet(est.sig) :
             /\ self' = [self EXCEPT !.bSUR = est.b, !.varb = est.varb, !.sig = est.sig]
             /\ loc' = [loc EXCEPT !.n_iter = @ + 1, !.det0 = loc.det1,
                                   !.resids = sur_resids(self.bigy, self.bigX, est.b),
                                   !.det1 = det1]
             /\ ldetMemo' = Remember(ldetMemo, SigKey(est.sig), det1)
             /\ hist' = [hist EXCEPT !.sur_est = Append(@, loc.resids),
                                     !.xp = Append(@, <<xp.bigXX, xp.bigXy>>),
                                     !.sur_crossprod = @ + 1]
    /\ pc' = "while"
    /\ UNCHANGED <<w, sym, err, args, given, cfg, done, ldiagMemo>>

\* lines 140-146 (verbose only prints)
LoopPass ==
    /\ pc = "while"
    /\ LoopCond
    /\ loc.n_iter < MaxGen
    /\ LET est == sur_est(self.bigXX, self.bigXy, loc.resids, self.bigK)
       IN  \E det1 \in slogdet(est.sig) :
             /\ self' = [self EXCEPT !.bSUR = est.b, !.varb = est.varb, !.sig = est.sig]
             /\ loc' = [loc EXCEPT !.n_iter = @ + 1, !.det0 = loc.det1,
                                   !.resids = sur_resids(self.bigy, self.bigX, est.b),
                                   !.det1 = det1]
             /\ ldetMemo' = Remember(ldetMemo, SigKey(est.sig), det1)
             /\ hist' = [hist EXCEPT !.sur_est = Append(@, loc.resids),
                                     !.xp = Append(@, <<self.bigXX, self.bigXy>>)]
    /\ pc' = "while"
    /\ UNCHANGED <<w, sym, err, args, given, cfg, done, ldiagMemo>>

\* LoopExit counting the two-step solve as an iteration
LoopExit_CountsTwoStep ==
    /\ pc = "while"
    /\ ~LoopCond
    /\ self' = [self EXCEPT !.bigE = sur_resids(self.bigy, self.bigX, self.bSUR),
                            !.ldetS1 = loc.det1, !.niter = loc.n_iter + 1]
    /\ pc' = "finish"
    /\ UNCHANGED <<w, sym, err, args, given, cfg, loc, hist, done, ldetMemo, ldiagMemo>>

\* LoopExit without line 150 (self.ldetS1 = det1)
LoopExit_KeepsLdetS1 ==
    /\ pc = "while"
    /\ ~LoopCond
    /\ self' = [self EXCEPT !.bigE = sur_resids(self.bigy, self.bigX, self.bSUR),
                            !.niter = loc.n_iter]
    /\ pc' = "finish"
    /\ UNCHANGED <<w, sym, err, args, given, cfg, loc, hist, done, ldetMemo, ldiagMemo>>

\* lines 149-151
LoopExit ==
    /\ pc = "while"
    /\ ~LoopCond
    /\ self' = [self EXCEPT !.bigE = sur_resids(self.bigy, self.bigX, self.bSUR),
                            !.ldetS1 = loc.det1, !.niter = loc.n_iter]
    /\ pc' = "finish"
    /\ UNCHANGED <<w, sym, err, args, given, cfg, loc, hist, done, ldetMemo, ldiagMemo>>

\* lines 155-158
BaseSUR_Finish ==
    /\ pc = "finish"
    /\ self' = [self EXCEPT !.bigYP = sur_predict(self.bigy, self.bigX, self.bSUR),
                            !.corr = sur_corr(self.sig),
                            !.llik = LogLik(self.n, self.n_eq, self.ldetS1)]
    /\ pc' = IF cfg.cls = "BaseSUR" THEN "return" ELSE "inference"
    /\ UNCHANGED <<w, sym, err, args, given, cfg, loc, hist, done, ldetMemo, ldiagMemo>>

BaseSUR_init ==
    \/ BaseSUR_Setup
    \/ SurOls
    \/ TwoStep
    \/ IterStart
    \/ NoIter
    \/ LoopPass
    \/ LoopExit
    \/ BaseSUR_Finish

Next ==
    \/ CallBaseSUR
    \/ BaseSUR_init
    \/ Return

Spec == Init /\ [][Next]_vars

--------------------------------------------------------------------------
(* SUR.__init__ *)

\* the loop, when entered, runs with the largest maxiter and the strictest epsilon
SURCalls ==
    {Cfg("SUR", i, m, e, regi, nd, sd, has_w) :
        i \in BOOLEAN, m \in {MaxIter}, e \in {0},
        regi \in BOOLEAN, nd \in BOOLEAN, sd \in BOOLEAN, has_w \in BOOLEAN}

\* sum of the lengths of the coefficient vectors of the equations before r
Offset(bigK, r) ==
    LET RECURSIVE upto(_)
        upto(i) == IF i = 0 THEN 0 ELSE upto(i - 1) + bigK[i - 1]
    IN  upto(r)

\* FormError comparing the lengths before asking whether all are lists
FormError_LengthFirst(c, all, msg) ==
    IF c.lists # {}
    THEN IF c.same_len
         THEN IF c.lists = all
              THEN IF c.df THEN "" ELSE msg.df
              ELSE msg.mixed
         ELSE msg.len
    ELSE ""

\* the nested tests of lines 418-428 (SUR) and 816-828 (ThreeSLS) on the
\* positional arguments all: the message raised, "" when none is
FormError(c, all, msg) ==
    IF c.lists # {}
    THEN IF c.lists = all
         THEN IF c.same_len
              THEN IF c.df THEN "" ELSE msg.df
              ELSE msg.len
         ELSE msg.mixed
    ELSE ""

SUR_Messages ==
    [df    |-> "Error: df argument is required if bigy and bigX are lists",
     len   |-> "Error: bigy and bigX must have the same number of elements",
     mixed |-> "Error: bigy and bigX must be both lists or both dictionaries"]

SUR_FormError == FormError(cfg, {"bigy", "bigX"}, SUR_Messages)

\* lines 418-450: the checks of 418-428 pass (with lists and df, sur_dictxy
\* builds the dictionaries the call works on: args from here on); the names
\* are built, name_bigX from bigX[r].shape[1] for r in range(n_eq)
SUR_Begin ==
    /\ pc = "SUR"
    /\ SUR_FormError = ""
    /\ HasKeys(args.bigX, n_eq_of(args.bigy))
    /\ self' = [self EXCEPT !.n_eq = Cardinality(DOMAIN args.bigy)]
    /\ pc' = "regimes"
    /\ UNCHANGED <<w, sym, args, given, cfg, loc, hist, err, done, ldetMemo, ldiagMemo>>

\* lines 418-428 raising
SUR_BeginInvalid ==
    /\ pc = "SUR"
    /\ SUR_FormError # ""
    /\ err' = SUR_FormError
    /\ pc' = "raise"
    /\ UNCHANGED <<w, sym, args, given, cfg, self, loc, hist, done, ldetMemo, ldiagMemo>>

\* line 446 reading bigX[r] for a key r of bigy that bigX has not
SUR_BeginKeyError ==
    /\ pc = "SUR"
    /\ SUR_FormError = ""
    /\ ~HasKeys(args.bigX, n_eq_of(args.bigy))
    /\ self' = [self EXCEPT !.n_eq = Cardinality(DOMAIN args.bigy)]
    /\ err' = KeyError
    /\ pc' = "raise"
    /\ UNCHANGED <<w, sym, args, given, cfg, loc, hist, done, ldetMemo, ldiagMemo>>

\* lines 452-476: bigX is the caller's dictionary, and bigX[r] = ... writes it
\* (check_cols2regi and USER.check_regimes are taken to pass)
SUR_Regimes ==
    /\ pc = "regimes"
    /\ cfg.cls = "SUR"
    /\ IF cfg.regimes
         THEN /\ self' = [self EXCEPT
                     !.regimes_set = NRegimes,
                     !.cols2regi_dic = [r \in 0 .. (self.n_eq - 1) |-> args.bigX[r].cols]]
              /\ args' = [args EXCEPT !.bigX =
                     [r \in DOMAIN @ |-> IF r \in 0 .. (self.n_eq - 1)
                                         THEN Regimes_Frame(@[r]) ELSE @[r]]]
         ELSE UNCHANGED <<w, sym, self, args>>
    /\ pc' = "BaseSUR"
    /\ UNCHANGED <<w, sym, given, cfg, loc, hist, err, done, ldetMemo, ldiagMemo>>

\* lines 452-476 when the expansion of the last equation comes back with a row
\* count that is not n: nothing in these lines looks at the shape returned
SUR_RegimesMisshapen ==
    /\ pc = "regimes"
    /\ cfg.cls = "SUR"
    /\ cfg.regimes
    /\ cfg.lists = {}
    /\ self' = [self EXCEPT
           !.regimes_set = NRegimes,
           !.cols2regi_dic = [r \in 0 .. (self.n_eq - 1) |-> args.bigX[r].cols]]
    /\ args' = [args EXCEPT !.bigX =
           [r \in DOMAIN @ |-> IF r \in 0 .. (self.n_eq - 2) THEN Regimes_Frame(@[r])
                               ELSE IF r = self.n_eq - 1 THEN Regimes_Frame_Short(@[r])
                               ELSE @[r]]]
    /\ pc' = "BaseSUR"
    /\ UNCHANGED <<w, sym, given, cfg, loc, hist, err, done, ldetMemo, ldiagMemo>>

\* line 491
SUR_Inference ==
    /\ pc = "inference"
    /\ cfg.cls = "SUR"
    /\ self' = [self EXCEPT !.sur_inf = sur_setp(self.bSUR, self.varb)]
    /\ pc' = "nonspat"
    /\ UNCHANGED <<w, sym, args, given, cfg, loc, hist, err, done, ldetMemo, ldiagMemo>>

\* SUR_NonSpat putting the Sigma the LM test reads in place of the fitted one
SUR_NonSpat_ResetsSig ==
    /\ pc = "nonspat"
    /\ IF cfg.nonspat_diag
         THEN self' = [self EXCEPT
                  !.lrtest = sur_lrtest(self.n, self.n_eq, self.ldetS0, self.ldetS1),
                  !.lmtest = sur_lmtest(self.n, self.n_eq, self.sig_ols),
                  !.sig = self.sig_ols]
         ELSE self' = [self EXCEPT !.lrtest = NoTest, !.lmtest = NoTest]
    /\ pc' = "spat"
    /\ UNCHANGED <<w, sym, args, given, cfg, loc, hist, err, done, ldetMemo, ldiagMemo>>

\* SUR_NonSpat taking the LM test from the fitted Sigma
SUR_NonSpat_LMFromSig ==
    /\ pc = "nonspat"
    /\ IF cfg.nonspat_diag
         THEN self' = [self EXCEPT
                  !.lrtest = sur_lrtest(self.n, self.n_eq, self.ldetS0, self.ldetS1),
                  !.lmtest = sur_lmtest(self.n, self.n_eq, self.sig)]
         ELSE self' = [self EXCEPT !.lrtest = NoTest, !.lmtest = NoTest]
    /\ pc' = "spat"
    /\ UNCHANGED <<w, sym, args, given, cfg, loc, hist, err, done, ldetMemo, ldiagMemo>>

\* lines 493-501
SUR_NonSpat ==
    /\ pc = "nonspat"
    /\ IF cfg.nonspat_diag
         THEN self' = [self EXCEPT
                  !.lrtest = sur_lrtest(self.n, self.n_eq, self.ldetS0, self.ldetS1),
                  !.lmtest = sur_lmtest(self.n, self.n_eq, self.sig_ols)]
         ELSE self' = [self EXCEPT !.lrtest = NoTest, !.lmtest = NoTest]
    /\ pc' = "spat"
    /\ UNCHANGED <<w, sym, args, given, cfg, loc, hist, err, done, ldetMemo, ldiagMemo>>

\* SUR_SpatNoWeights leaving the spatial tests out instead of raising
SUR_SpatNoWeights_Skips ==
    /\ pc = "spat"
    /\ cfg.spat_diag /\ ~cfg.w
    /\ self' = [self EXCEPT !.lmEtest = NoTest, !.lmlagtest = NoTest]
    /\ pc' = "chow"
    /\ UNCHANGED <<w, sym, args, given, cfg, err, loc, hist, done, ldetMemo, ldiagMemo>>

\* lines 503-505: spat_diag without w
SUR_SpatNoWeights ==
    /\ pc = "spat"
    /\ cfg.spat_diag /\ ~cfg.w
    /\ err' = "Error: spatial weights needed"
    /\ pc' = "raise"
    /\ UNCHANGED <<w, sym, args, given, cfg, self, loc, hist, done, ldetMemo, ldiagMemo>>

\* lines 503-522 otherwise
SUR_Spat ==
    /\ pc = "spat"
    /\ ~(cfg.spat_diag /\ ~cfg.w)
    /\ IF cfg.spat_diag
         THEN self' = [self EXCEPT
                  !.lmEtest = surLMe(self.n_eq, "w.sparse", self.bigE, self.sig),
                  !.lmlagtest = surLMlag(self.n_eq, "w.sparse", self.bigy, self.bigX,
                                         self.bigE, self.bigYP, self.sig, self.varb)]
         ELSE self' = [self EXCEPT !.lmEtest = NoTest, !.lmlagtest = NoTest]
    /\ pc' = "chow"
    /\ UNCHANGED <<w, sym, args, given, cfg, loc, hist, err, done, ldetMemo, ldiagMemo>>

\* SUR_Chow without the test of line 525
SUR_Chow_Always ==
    /\ pc = "chow"
    /\ cfg.cls = "SUR"
    /\ self' = [self EXCEPT !.surchow =
             sur_chow(self.n_eq, self.bigK, self.bSUR, self.varb)]
    /\ pc' = "summary"
    /\ UNCHANGED <<w, sym, args, given, cfg, loc, hist, err, done, ldetMemo, ldiagMemo>>

\* lines 524-528
SUR_Chow ==
    /\ pc = "chow"
    /\ cfg.cls = "SUR"
    /\ self' = [self EXCEPT !.surchow =
             IF check_k(self.bigK)
             THEN sur_chow(self.n_eq, self.bigK, self.bSUR, self.varb)
             ELSE NoTest]
    /\ pc' = "summary"
    /\ UNCHANGED <<w, sym, args, given, cfg, loc, hist, err, done, ldetMemo, ldiagMemo>>

\* SUR_Summary with varb_counter left at 0 for every equation
SUR_Summary_CounterStays ==
    /\ pc = "summary"
    /\ cfg.cls = "SUR"
    /\ self' = [self EXCEPT
           !.chow_regimes =
               IF cfg.regimes
               THEN [r \in 0 .. (self.n_eq - 1) |->
                        chow_run(self.cols2regi_dic[r], self.regimes_set, self.bSUR, r,
                                 self.varb, 0, self.bigK[r])]
               ELSE NoDict,
           !.summary = TRUE]
    /\ pc' = "return"
    /\ UNCHANGED <<w, sym, args, given, cfg, loc, hist, err, done, ldetMemo, ldiagMemo>>

\* lines 530-555; bSUR[r].shape[0] is bigK[r]
SUR_Summary ==
    /\ pc = "summary"
    /\ cfg.cls = "SUR"
    /\ self' = [self EXCEPT
           !.chow_regimes =
               IF cfg.regimes
               THEN [r \in 0 .. (self.n_eq - 1) |->
                        chow_run(self.cols2regi_dic[r], self.regimes_set, self.bSUR, r,
                                 self.varb, Offset(self.bigK, r),
                                 Offset(self.bigK, r) + self.bigK[r])]
               ELSE NoDict,
           !.summary = TRUE]
    /\ pc' = "return"
    /\ UNCHANGED <<w, sym, args, given, cfg, loc, hist, err, done, ldetMemo, ldiagMemo>>

--------------------------------------------------------------------------
(* BaseThreeSLS.__init__ *)

\* sphstack(bigX[r], bigyend[r]) and sphstack(bigX[r], bigq[r]) are defined
StacksAgree(a) ==
    \A r \in 0 .. (n_eq_of(a.bigy) - 1) :
        SameRows(a.bigX[r], a.bigyend[r]) /\ SameRows(a.bigX[r], a.bigq[r])

\* lines 611-617 when the rows of bigX[r] and bigyend[r] differ: sphstack fails
BaseThreeSLS_SetupMismatch ==
    /\ pc = "BaseThreeSLS"
    /\ ~StacksAgree(args)
    /\ self' = [self EXCEPT !.bigy = args.bigy, !.n_eq = n_eq_of(args.bigy),
                            !.n = args.bigy[0].rows]
    /\ err' = DimensionMismatch
    /\ pc' = "raise"
    /\ UNCHANGED <<w, sym, args, given, cfg, loc, hist, done, ldetMemo, ldiagMemo>>

\* lines 611-625
BaseThreeSLS_Setup ==
    /\ pc = "BaseThreeSLS"
    /\ StacksAgree(args)
    /\ LET bigy == args.bigy
           n_eq == Cardinality(DOMAIN bigy)
           bigZ == [r \in 0 .. (n_eq - 1) |-> sphstack(args.bigX[r], args.bigyend[r])]
       IN  /\ self' = [self EXCEPT
                  !.bigy = bigy, !.n_eq = n_eq, !.n = bigy[0].rows, !.bigZ = bigZ,
                  !.bigK = [r \in 0 .. (n_eq - 1) |-> bigZ[r].cols]]
           /\ loc' = [loc EXCEPT !.bigH =
                  [r \in 0 .. (n_eq - 1) |-> sphstack(args.bigX[r], args.bigq[r])]]
    /\ pc' = "zhat"
    /\ UNCHANGED <<w, sym, args, given, cfg, hist, err, done, ldetMemo, ldiagMemo>>

\* GetBigZhat_Singular going on with whatever the inversion left
GetBigZhat_Degenerate ==
    /\ pc = "zhat"
    /\ args.singular.of \in {"XX", "HH"}
    /\ loc' = [loc EXCEPT !.bigZhat =
           [r \in 0 .. (self.n_eq - 1) |->
               sphstack(args.bigX[r], Fitted(loc.bigH[r], args.bigyend[r]))]]
    /\ pc' = "crossprod"
    /\ UNCHANGED <<w, sym, args, given, cfg, self, hist, err, done, ldetMemo, ldiagMemo>>

\* lines 985-988 when la.inv(H_r'H_r) fails: the except clause raises; H_r'H_r
\* is singular when the columns of X_r are dependent, too
GetBigZhat_Singular ==
    /\ pc = "zhat"
    /\ args.singular.of \in {"XX", "HH"}
    /\ err' = SingularInstruments
    /\ pc' = "raise"
    /\ UNCHANGED <<w, sym, args, given, cfg, self, loc, hist, done, ldetMemo, ldiagMemo>>

\* line 627: _get_bigZhat, lines 983-992
GetBigZhat ==
    /\ pc = "zhat"
    /\ args.singular.of \notin {"XX", "HH"}
    /\ loc' = [loc EXCEPT !.bigZhat =
           [r \in 0 .. (self.n_eq - 1) |->
               sphstack(args.bigX[r], Fitted(loc.bigH[r], args.bigyend[r]))]]
    /\ pc' = "crossprod"
    /\ UNCHANGED <<w, sym, args, given, cfg, self, hist, err, done, ldetMemo, ldiagMemo>>

\* line 628 when the rows of bigZhat[r] and bigy[r] differ: sur_crossprod fails
BaseThreeSLS_CrossprodMismatch ==
    /\ pc = "crossprod"
    /\ ~RowsAgree(loc.bigZhat, self.bigy)
    /\ hist' = [hist EXCEPT !.sur_crossprod = @ + 1]
    /\ err' = DimensionMismatch
    /\ pc' = "raise"
    /\ UNCHANGED <<w, sym, args, given, cfg, self, loc, done, ldetMemo, ldiagMemo>>

\* BaseThreeSLS_Crossprod on the actual design Z in place of Zhat
BaseThreeSLS_Crossprod_ActualZ ==
    /\ pc = "crossprod"
    /\ RowsAgree(loc.bigZhat, self.bigy)
    /\ LET xp == sur_crossprod(self.bigZ, self.bigy)
       IN  self' = [self EXCEPT !.bigZHZH = xp.bigXX, !.bigZHy = xp.bigXy]
    /\ hist' = [hist EXCEPT !.sur_crossprod = @ + 1]
    /\ pc' = "2sls"
    /\ UNCHANGED <<w, sym, args, given, cfg, loc, err, done, ldetMemo, ldiagMemo>>

\* line 628
BaseThreeSLS_Crossprod ==
    /\ pc = "crossprod"
    /\ RowsAgree(loc.bigZhat, self.bigy)
    /\ LET xp == sur_crossprod(loc.bigZhat, self.bigy)
       IN  self' = [self EXCEPT !.bigZHZH = xp.bigXX, !.bigZHy = xp.bigXy]
    /\ hist' = [hist EXCEPT !.sur_crossprod = @ + 1]
    /\ pc' = "2sls"
    /\ UNCHANGED <<w, sym, args, given, cfg, loc, err, done, ldetMemo, ldiagMemo>>

\* line 631: _sur_2sls, lines 975-979
Sur2sls ==
    /\ pc = "2sls"
    /\ args.singular.of # "ZHZH"
    /\ LET b2SLS == [kind |-> "b", g |-> 0]
       IN  self' = [self EXCEPT !.b2SLS = b2SLS,
                                !.tslsE = sur_resids(self.bigy, self.bigZ, b2SLS)]
    /\ hist' = [hist EXCEPT !.seed = @ + 1, !.resid_on = Append(@, self.bigZ)]
    /\ pc' = "3sls"
    /\ UNCHANGED <<w, sym, args, given, cfg, loc, err, done, ldetMemo, ldiagMemo>>

\* lines 975-977 when la.inv(reg.bigZHZH[(r, r)]) fails
Sur2sls_Singular ==
    /\ pc = "2sls"
    /\ args.singular.of = "ZHZH"
    /\ hist' = [hist EXCEPT !.seed = @ + 1]
    /\ err' = LinAlgError
    /\ pc' = "raise"
    /\ UNCHANGED <<w, sym, args, given, cfg, self, loc, done, ldetMemo, ldiagMemo>>

\* BaseThreeSLS_Est solving once more, on the residuals of its first solve
BaseThreeSLS_Est_Twice ==
    /\ pc = "3sls"
    /\ LET first == sur_est(self.bigZHZH, self.bigZHy, self.tslsE, self.bigK)
           E     == sur_resids(self.bigy, self.bigZ, first.b)
           est   == sur_est(self.bigZHZH, self.bigZHy, E, self.bigK)
       IN  /\ self' = [self EXCEPT !.b3SLS = est.b, !.varb = est.varb, !.sig = est.sig,
                                   !.bigE = sur_resids(self.bigy, self.bigZ, est.b),
                                   !.corr = sur_corr(est.sig)]
           /\ hist' = [hist EXCEPT
                   !.sur_est = @ \o <<self.tslsE, E>>,
                   !.xp = @ \o <<<<self.bigZHZH, self.bigZHy>>,
                                 <<self.bigZHZH, self.bigZHy>>>>,
                   !.resid_on = @ \o <<self.bigZ, self.bigZ>>]
    /\ pc' = "inference"
    /\ UNCHANGED <<w, sym, args, given, cfg, loc, err, done, ldetMemo, ldiagMemo>>

\* lines 633-639
BaseThreeSLS_Est ==
    /\ pc = "3sls"
    /\ LET est == sur_est(self.bigZHZH, self.bigZHy, self.tslsE, self.bigK)
       IN  /\ self' = [self EXCEPT !.b3SLS = est.b, !.varb = est.varb, !.sig = est.sig,
                                   !.bigE = sur_resids(self.bigy, self.bigZ, est.b),
                                   !.corr = sur_corr(est.sig)]
           /\ hist' = [hist EXCEPT !.sur_est = Append(@, self.tslsE),
                                   !.xp = Append(@, <<self.bigZHZH, self.bigZHy>>),
                                   !.resid_on = Append(@, self.bigZ)]
    /\ pc' = "inference"
    /\ UNCHANGED <<w, sym, args, given, cfg, loc, err, done, ldetMemo, ldiagMemo>>

BaseThreeSLS_init ==
    \/ BaseThreeSLS_Setup
    \/ GetBigZhat
    \/ BaseThreeSLS_Crossprod
    \/ Sur2sls
    \/ BaseThreeSLS_Est

--------------------------------------------------------------------------
(* ThreeSLS.__init__ *)

ThreeSLSCalls ==
    {Cfg("ThreeSLS", FALSE, 0, 0, regi, nd, FALSE, FALSE) :
        regi \in BOOLEAN, nd \in BOOLEAN}

ThreeSLS_Messages ==
    [df    |-> "Error: df argument is required if bigy, bigX, bigyend and bigq are lists",
     len   |-> "Error: bigy, bigX, bigyend and bigq must have the same number of elements",
     mixed |-> "Error: bigy, bigX, bigyend and bigq must be all lists or all dictionaries"]

ThreeSLS_FormError ==
    FormError(cfg, {"bigy", "bigX", "bigyend", "bigq"}, ThreeSLS_Messages)

\* the keys the name loops of lines 836-863 read
ThreeSLS_HasKeys ==
    /\ HasKeys(args.bigX, n_eq_of(args.bigy))
    /\ HasKeys(args.bigyend, n_eq_of(args.bigy))
    /\ HasKeys(args.bigq, n_eq_of(args.bigy))

\* lines 816-863: the checks of 816-828 pass (with lists and df, sur_dictxy and
\* sur_dictZ build the dictionaries the call works on); the names are built
ThreeSLS_Begin ==
    /\ pc = "ThreeSLS"
    /\ ThreeSLS_FormError = ""
    /\ ThreeSLS_HasKeys
    /\ self' = [self EXCEPT !.n_eq = Cardinality(DOMAIN args.bigy)]
    /\ pc' = "regimes"
    /\ UNCHANGED <<w, sym, args, given, cfg, loc, hist, err, done, ldetMemo, ldiagMemo>>

\* lines 816-828 raising
ThreeSLS_BeginInvalid ==
    /\ pc = "ThreeSLS"
    /\ ThreeSLS_FormError # ""
    /\ err' = ThreeSLS_FormError
    /\ pc' = "raise"
    /\ UNCHANGED <<w, sym, args, given, cfg, self, loc, hist, done, ldetMemo, ldiagMemo>>

\* line 839 reading bigX[r] for a key r of bigy that bigX has not
ThreeSLS_BeginKeyError ==
    /\ pc = "ThreeSLS"
    /\ ThreeSLS_FormError = ""
    /\ ~ThreeSLS_HasKeys
    /\ self' = [self EXCEPT !.n_eq = Cardinality(DOMAIN args.bigy)]
    /\ err' = KeyError
    /\ pc' = "raise"
    /\ UNCHANGED <<w, sym, args, given, cfg, loc, hist, done, ldetMemo, ldiagMemo>>

\* lines 865-920: bigX, bigq and bigyend are the caller's dictionaries, and
\* bigX[r] = ..., bigq[r] = ..., bigyend[r] = ... write them
ThreeSLS_Regimes ==
    /\ pc = "regimes"
    /\ cfg.cls = "ThreeSLS"
    /\ IF cfg.regimes
         THEN LET eqs == 0 .. (self.n_eq - 1)
                  expand(d) == [r \in DOMAIN d |->
                                   IF r \in eqs THEN Regimes_Frame(d[r]) ELSE d[r]]
              IN  /\ self' = [self EXCEPT
                         !.regimes_set = NRegimes,
                         !.cols2regi_dic =
                             [r \in eqs |-> args.bigX[r].cols + args.bigyend[r].cols]]
                  /\ args' = [args EXCEPT !.bigX = expand(@), !.bigq = expand(@),
                                          !.bigyend = expand(@)]
         ELSE UNCHANGED <<w, sym, self, args>>
    /\ pc' = "BaseThreeSLS"
    /\ UNCHANGED <<w, sym, given, cfg, loc, hist, err, done, ldetMemo, ldiagMemo>>

\* lines 865-920 when the expansions of the last equation come back with a row
\* count that is not n: nothing in these lines looks at the shapes returned
ThreeSLS_RegimesMisshapen ==
    /\ pc = "regimes"
    /\ cfg.cls = "ThreeSLS"
    /\ cfg.regimes
    /\ cfg.lists = {}
    /\ LET eqs == 0 .. (self.n_eq - 1)
           expand(d) == [r \in DOMAIN d |->
                            IF r \in 0 .. (self.n_eq - 2) THEN Regimes_Frame(d[r])
                            ELSE IF r = self.n_eq - 1 THEN Regimes_Frame_Short(d[r])
                            ELSE d[r]]
       IN  /\ self' = [self EXCEPT
                  !.regimes_set = NRegimes,
                  !.cols2regi_dic =
                      [r \in eqs |-> args.bigX[r].cols + args.bigyend[r].cols]]
           /\ args' = [args EXCEPT !.bigX = expand(@), !.bigq = expand(@),
                                   !.bigyend = expand(@)]
    /\ pc' = "BaseThreeSLS"
    /\ UNCHANGED <<w, sym, given, cfg, loc, hist, err, done, ldetMemo, ldiagMemo>>

\* line 925
ThreeSLS_Inference ==
    /\ pc = "inference"
    /\ cfg.cls = "ThreeSLS"
    /\ self' = [self EXCEPT !.tsls_inf = sur_setp(self.b3SLS, self.varb)]
    /\ pc' = "chow"
    /\ UNCHANGED <<w, sym, args, given, cfg, loc, hist, err, done, ldetMemo, ldiagMemo>>

\* lines 927-931
ThreeSLS_Chow ==
    /\ pc = "chow"
    /\ cfg.cls = "ThreeSLS"
    /\ self' = [self EXCEPT !.surchow =
             IF check_k(self.bigK)
             THEN sur_chow(self.n_eq, self.bigK, self.b3SLS, self.varb)
             ELSE NoTest]
    /\ pc' = "summary"
    /\ UNCHANGED <<w, sym, args, given, cfg, loc, hist, err, done, ldetMemo, ldiagMemo>>

\* lines 933-954; b3SLS[r].shape[0] is bigK[r]
ThreeSLS_Summary ==
    /\ pc = "summary"
    /\ cfg.cls = "ThreeSLS"
    /\ self' = [self EXCEPT
           !.chow_regimes =
               IF cfg.regimes
               THEN [r \in 0 .. (self.n_eq - 1) |->
                        chow_run(self.cols2regi_dic[r], self.regimes_set, self.b3SLS, r,
                                 self.varb, Offset(self.bigK, r),
                                 Offset(self.bigK, r) + self.bigK[r])]
               ELSE NoDict,
           !.summary = TRUE]
    /\ pc' = "return"
    /\ UNCHANGED <<w, sym, args, given, cfg, loc, hist, err, done, ldetMemo, ldiagMemo>>

ThreeSLS_init ==
    \/ ThreeSLS_Begin
    \/ ThreeSLS_Regimes
    \/ BaseThreeSLS_init
    \/ ThreeSLS_Inference
    \/ ThreeSLS_Chow
    \/ ThreeSLS_Summary

SUR_init ==
    \/ SUR_Begin
    \/ SUR_Regimes
    \/ BaseSUR_init
    \/ SUR_Inference
    \/ SUR_NonSpat
    \/ SUR_SpatNoWeights
    \/ SUR_Spat
    \/ SUR_Chow
    \/ SUR_Summary

--------------------------------------------------------------------------
(* A caller that constructs SUR or ThreeSLS from its dictionaries, and then
   once more with the same argument objects and the same keyword arguments *)

CallUser ==
    /\ Len(done) = 0
    /\ \E c \in SURCalls \cup ThreeSLSCalls : Construct(c)

CallAgain ==
    /\ Len(done) = 1
    /\ Construct(done[1].cfg)

NextUser ==
    \/ CallUser
    \/ CallAgain
    \/ SUR_init
    \/ ThreeSLS_init
    \/ Return

SpecUser == Init /\ [][NextUser]_vars

\* the estimation runs on the calling thread to completion: a step that can be
\* taken is taken
FirstCall == Len(done) = 0 /\ CallBaseSUR

SpecLive ==
    Init /\ [][FirstCall \/ BaseSUR_init \/ Return]_vars
         /\ WF_vars(BaseSUR_init \/ Return)

--------------------------------------------------------------------------
(* A caller that constructs SUR or ThreeSLS once, from data that may be
   deficient and with the positional arguments in any form *)

SUR_fails ==
    \/ SUR_BeginInvalid
    \/ SUR_BeginKeyError
    \/ BaseSUR_SetupMismatch
    \/ SurOls_Singular

ThreeSLS_fails ==
    \/ ThreeSLS_BeginInvalid
    \/ ThreeSLS_BeginKeyError
    \/ BaseThreeSLS_SetupMismatch
    \/ BaseThreeSLS_CrossprodMismatch
    \/ GetBigZhat_Singular
    \/ Sur2sls_Singular

\* calls with at least one positional argument a list; the keyword arguments
\* other than regimes are the defaults
SURListCalls ==
    {[Cfg("SUR", FALSE, MaxIter, 0, regi, TRUE, FALSE, FALSE)
        EXCEPT !.lists = l, !.same_len = sl, !.df = df] :
        l \in (SUBSET {"bigy", "bigX"}) \ {{}},
        sl \in BOOLEAN, df \in BOOLEAN, regi \in BOOLEAN}

ThreeSLSListCalls ==
    {[Cfg("ThreeSLS", FALSE, 0, 0, FALSE, TRUE, FALSE, FALSE)
        EXCEPT !.lists = l, !.same_len = sl, !.df = df] :
        l \in (SUBSET {"bigy", "bigX", "bigyend", "bigq"}) \ {{}},
        sl \in BOOLEAN, df \in BOOLEAN}

\* the columns of one df have one row count, and sur_dictxy builds one entry per
\* equation: data read through lists cannot disagree in shape
InitOnce ==
    /\ args \in ArgSets \cup SingularArgSets \cup MismatchedArgSets
    /\ given = args
    /\ cfg = NoCfg
    /\ pc = "idle"
    /\ self = BlankSelf
    /\ loc = BlankLoc
    /\ hist = BlankHist
    /\ err = ""
    /\ done = <<>>
    /\ ldetMemo = <<>>
    /\ ldiagMemo = <<>>
    /\ w = NoWeights
    /\ sym = NoSym

\* SUR takes no bigyend and no bigq: the only cross-products it inverts are
\* the X_r'X_r
CallOnce ==
    /\ Len(done) = 0
    /\ \/ /\ args.singular.of \in {"none", "XX"}
          /\ \E c \in SURCalls : Construct(c)
       \/ \E c \in ThreeSLSCalls : Construct(c)
       \/ /\ args \notin MismatchedArgSets
          /\ args.singular.of \in {"none", "XX"}
          /\ \E c \in SURListCalls : Construct(c)
       \/ /\ args \notin MismatchedArgSets
          /\ \E c \in ThreeSLSListCalls : Construct(c)

\* the expansion is the work of REGI.Regimes_Frame, whose result sur.py takes
\* as it comes
Regimes_misshapen ==
    \/ SUR_RegimesMisshapen
    \/ ThreeSLS_RegimesMisshapen

NextOnce ==
    \/ CallOnce
    \/ SUR_init
    \/ SUR_fails
    \/ ThreeSLS_init
    \/ ThreeSLS_fails
    \/ Regimes_misshapen
    \/ Return

SpecOnce == InitOnce /\ [][NextOnce]_vars

--------------------------------------------------------------------------
(* w_utils.symmetrize *)

\* the transforms a weights object can be in: original, binary,
\* row-standardized, double-standardized, variance-stabilizing
TransformVals == {"O", "B", "r", "D", "V"}

\* w.sparse: the weights as a sparse matrix, under the transform w is in
sparse(wo) == [kind |-> "sparse", transform |-> wo.transform, n |-> wo.n]

\* the estimation variables, which symmetrize does not touch
sur_vars == <<args, given, cfg, pc, self, loc, hist, err, done, ldetMemo, ldiagMemo>>

\* the caller calls symmetrize(w); line 18
Symmetrize_Call ==
    /\ sym.pc = "idle"
    /\ Len(sym.returned) + 1 \in Constructions
    /\ sym' = [sym EXCEPT !.pc = "line19", !.current = w.transform]
    /\ UNCHANGED <<w, sur_vars>>

\* line 19
Symmetrize_Binary ==
    /\ sym.pc = "line19"
    /\ w' = [w EXCEPT !.transform = "B"]
    /\ sym' = [sym EXCEPT !.pc = "line20"]
    /\ UNCHANGED sur_vars

\* lines 20-22
Symmetrize_RowSums ==
    /\ sym.pc = "line20"
    /\ sym' = [sym EXCEPT !.pc = "line23",
                          !.d = [kind |-> "sqrt_rowsum", of |-> sparse(w)]]
    /\ UNCHANGED <<w, sur_vars>>

\* lines 23-24
Symmetrize_Diagonals ==
    /\ sym.pc = "line23"
    /\ sym' = [sym EXCEPT !.pc = "line25",
                          !.Di12 = [kind |-> "dia", of |-> sym.d, power |-> 0 - 1],
                          !.D12 = [kind |-> "dia", of |-> sym.d, power |-> 1]]
    /\ UNCHANGED <<w, sur_vars>>

\* line 25
Symmetrize_RowStandardized ==
    /\ sym.pc = "line25"
    /\ w' = [w EXCEPT !.transform = "r"]
    /\ sym' = [sym EXCEPT !.pc = "line26"]
    /\ UNCHANGED sur_vars

\* Symmetrize_Return putting back the transform saved at line 18
Symmetrize_Return_Restores ==
    /\ sym.pc = "line26"
    /\ w' = [w EXCEPT !.transform = sym.current]
    /\ sym' = [NoSym EXCEPT !.returned =
                  Append(sym.returned,
                         [entry |-> sym.current,
                          result |-> <<sym.D12, sparse(w), sym.Di12>>,
                          w |-> w'])]
    /\ UNCHANGED sur_vars

\* line 26
Symmetrize_Return ==
    /\ sym.pc = "line26"
    /\ sym' = [NoSym EXCEPT !.returned =
                  Append(sym.returned,
                         [entry |-> sym.current,
                          result |-> <<sym.D12, sparse(w), sym.Di12>>,
                          w |-> w])]
    /\ UNCHANGED <<w, sur_vars>>

symmetrize ==
    \/ Symmetrize_Binary
    \/ Symmetrize_RowSums
    \/ Symmetrize_Diagonals
    \/ Symmetrize_RowStandardized
    \/ Symmetrize_Return

\* a weights object of 2 to NObs observations in any transform, and no
\* estimation under way
InitSym ==
    /\ w \in [transform : TransformVals, n : 2 .. NObs]
    /\ sym = NoSym
    /\ args = NoDict
    /\ given = NoDict
    /\ cfg = NoCfg
    /\ pc = "idle"
    /\ self = BlankSelf
    /\ loc = BlankLoc
    /\ hist = BlankHist
    /\ err = ""
    /\ done = <<>>
    /\ ldetMemo = <<>>
    /\ ldiagMemo = <<>>

NextSym ==
    \/ Symmetrize_Call
    \/ symmetrize

SpecSym == InitSym /\ [][NextSym]_vars

--------------------------------------------------------------------------
(* Reading a state *)

WeightsNeeded == "Error: spatial weights needed"

\* the fitted model: what BaseSUR.__init__ or BaseThreeSLS.__init__ leaves
FittedModel ==
    <<self.bSUR, self.b3SLS, self.varb, self.sig, self.sig_ols, self.bigE,
      self.bigYP, self.ldetS0, self.ldetS1, self.llik, self.niter>>

\* the positional arguments of the class, and the messages of its checks
Positional(cls) ==
    IF cls = "SUR" THEN {"bigy", "bigX"} ELSE {"bigy", "bigX", "bigyend", "bigq"}

Messages(cls) == IF cls = "SUR" THEN SUR_Messages ELSE ThreeSLS_Messages

\* some diagnostic of SUR has been computed
SomeDiagnostic ==
    \/ self.sur_inf # NoTest \/ self.lrtest # NoTest \/ self.lmtest # NoTest
    \/ self.lmEtest # NoTest \/ self.lmlagtest # NoTest \/ self.surchow # NoTest
    \/ self.chow_regimes # NoDict

\* positions after BaseSUR.__init__ or BaseThreeSLS.__init__ has returned
PostStages == {"inference", "nonspat", "spat", "chow", "summary", "return"}

\* a construction of SUR from dictionaries without deficiency, or from lists
\* that pass the checks of lines 418-428
SoundSUR(c, data) ==
    /\ c.cls = "SUR"
    /\ FormError(c, {"bigy", "bigX"}, SUR_Messages) = ""
    /\ data \in ArgSets

\* the matrices the estimation was run on, expanded or not, have the rows of y
WellExpanded(a) == RowsAgree(a.bigX, a.bigy)

FullLdet(sig) == ldetMemo[SigKey(sig)]
DiagLdet(sig) == ldiagMemo[SigKey(sig)]

\* joint solves after the two-step solve, so far
Passes == Len(hist.sur_est) - 1

\* the outputs of the last joint solve made
LastEst == sur_est(self.bigXX, self.bigXy, hist.sur_est[Len(hist.sur_est)], self.bigK)

Returning == pc = "return"

SameOutputs(a, b) ==
    /\ a.bSUR = b.bSUR /\ a.varb = b.varb /\ a.sig = b.sig
    /\ a.ldetS1 = b.ldetS1 /\ a.llik = b.llik /\ a.bigE = b.bigE
    /\ a.niter = b.niter

--------------------------------------------------------------------------
(* Claims *)

\* C1: a construction with iter=True and maxiter=0 makes no joint solve after
\* the two-step one and returns the bSUR, varb, sig, ldetS1, llik, bigE and
\* niter of the same construction with iter=False.
C1_MaxiterZeroIsTwoStep ==
    \A i, j \in DOMAIN done :
        (/\ done[i].given = done[j].given
         /\ ~done[i].cfg.iter
         /\ done[j].cfg.iter
         /\ done[j].cfg.maxiter = 0
         /\ done[i].cfg.maxiter = 0
         /\ done[i].cfg.epsilon = done[j].cfg.epsilon)
        => /\ Len(done[j].hist.sur_est) = 1
           /\ SameOutputs(done[i].self, done[j].self)

\* C2: with iter=True and maxiter >= 0, the passes executed and the recorded
\* niter never exceed maxiter.
C2_PassesWithinMaxiter ==
    (cfg.iter /\ cfg.maxiter >= 0 /\ pc \in {"while", "finish", "return"})
    => /\ Passes <= cfg.maxiter
       /\ (Returning => self.niter <= cfg.maxiter)

\* C3 as stated: at every convergence test, the first included, det1 is the
\* full log-determinant of the current Sigma and det0 the full log-determinant
\* of the Sigma before it (at the first test, of the only Sigma there is).
C3_EveryTestFullAgainstFull ==
    pc = "while" =>
        /\ loc.det1 = FullLdet(self.sig)
        /\ loc.det0 = FullLdet([kind |-> "S",
                                g |-> IF self.sig.g = 0 THEN 0 ELSE self.sig.g - 1])

\* C3 as amended: the first test compares the full log-determinant of the
\* two-step Sigma with ldetS0, the diagonal-only log-determinant of that same
\* Sigma; every later test compares the full log-determinant of the Sigma of
\* the pass just made with that of the pass before it; a pass is made only
\* when the difference tested exceeds epsilon.
C3_TestsCompare ==
    [][/\ (pc = "if_iter" /\ pc' = "while") =>
             /\ loc'.det1 = FullLdet(self.sig)'
             /\ loc'.det0 = DiagLdet(self.sig)'
             /\ loc'.det0 = self'.ldetS0
       /\ (pc = "while" /\ pc' = "while") =>
             /\ Abs(loc.det1 - loc.det0) > cfg.epsilon
             /\ self'.sig.g = self.sig.g + 1
             /\ loc'.det1 = FullLdet(self.sig)'
             /\ loc'.det0 = FullLdet(self.sig)
       /\ (pc = "while" /\ pc' = "finish") =>
             Abs(loc.det1 - loc.det0) <= cfg.epsilon \/ loc.n_iter > cfg.maxiter]_vars

C3_Witness ==
    /\ pc = "while"
    /\ loc.n_iter = 2
    /\ self.ldetS0 # FullLdet(self.sig_ols)
    /\ loc.det0 # loc.det1

C5_Terminates == (pc = "BaseSUR") ~> (pc = "return")

\* a run stopped by maxiter alone, on log-determinants that went up and down
C5_Witness ==
    /\ Returning /\ cfg.iter
    /\ cfg.maxiter >= 1
    /\ Abs(loc.det1 - loc.det0) > cfg.epsilon
    /\ loc.det1 > loc.det0
    /\ FullLdet([kind |-> "S", g |-> 1]) < FullLdet([kind |-> "S", g |-> 0])

\* C6: when the loop is left with the epsilon criterion unmet, the construction
\* returns with niter the number of passes made and with bSUR, varb, sig, bigE,
\* ldetS1 and llik those of the last pass.
C6_CappedReturnsLastPass ==
    (Returning /\ cfg.iter /\ Abs(loc.det1 - loc.det0) > cfg.epsilon) =>
        /\ self.niter = Passes
        /\ self.bSUR = LastEst.b
        /\ self.varb = LastEst.varb
        /\ self.sig = LastEst.sig
        /\ self.bigE = sur_resids(self.bigy, self.bigX, LastEst.b)
        /\ self.ldetS1 = FullLdet(LastEst.sig)
        /\ self.llik = LogLik(self.n, self.n_eq, FullLdet(LastEst.sig))

C6_Witness ==
    /\ Returning /\ cfg.iter
    /\ Abs(loc.det1 - loc.det0) > cfg.epsilon
    /\ Passes = 2

\* C7: on return, in every mode, ldetS1 is the log-determinant of the retained
\* sig and llik = -(n/2) * (n_eq * (1 + ln 2 pi) + ldetS1)  (llik in 1/2000).
C7_LdetAndLlikOfFinalSig ==
    Returning =>
        /\ self.ldetS1 = FullLdet(self.sig)
        /\ self.llik = 0 - self.n * (self.n_eq * (1000 + LogTwoPiMilli)
                                      + 1000 * self.ldetS1)

C7_Witness ==
    /\ Returning /\ cfg.iter /\ Passes >= 1
    /\ FullLdet(self.sig) # FullLdet(self.sig_ols)

\* C8: sig_ols is the Sigma of the OLS residuals and ldetS0 the sum of the logs
\* of its diagonal, from before the loop on and through every pass; two
\* constructions on the same data have the same sig_ols and ldetS0 whatever
\* their iter, maxiter and epsilon.
C8_NullModelFixed ==
    /\ pc \in {"if_iter", "while", "finish", "return"} =>
          /\ self.sig_ols = sur_est(self.bigXX, self.bigXy, self.olsE, self.bigK).sig
          /\ self.olsE = [kind |-> "E", g |-> 0]
          /\ self.ldetS0 = DiagLdet(self.sig_ols)
    /\ \A i, j \in DOMAIN done :
          done[i].given = done[j].given =>
              /\ done[i].self.sig_ols = done[j].self.sig_ols
              /\ done[i].self.ldetS0 = done[j].self.ldetS0

C8_Witness ==
    /\ Len(done) = 2
    /\ done[1].cfg.iter # done[2].cfg.iter
    /\ done[1].self.sig # done[2].self.sig
    /\ done[1].self.ldetS0 # done[1].self.ldetS1

\* C9: constructing SUR or ThreeSLS leaves the caller's bigy, bigX, bigyend and
\* bigq dictionaries as they were: after the call every key maps to the matrix
\* it mapped to before, regimes given or not.
C9_ArgumentsUntouched ==
    \A i \in DOMAIN done : done[i].err = "" => done[i].after = done[i].given

\* C10: a second construction with the same argument objects and the same
\* keyword arguments ends as the first did, with the same bigK, coefficients,
\* varb, sig, bigE, niter and llik.
C10_SecondConstructionIdentical ==
    (Len(done) = 2 /\ done[1].cfg = done[2].cfg /\ done[1].err = "") =>
        /\ done[2].err = ""
        /\ done[2].self.bigK = done[1].self.bigK
        /\ done[2].self.bSUR = done[1].self.bSUR
        /\ done[2].self.b3SLS = done[1].self.b3SLS
        /\ done[2].self.varb = done[1].self.varb
        /\ done[2].self.sig = done[1].self.sig
        /\ done[2].self.bigE = done[1].self.bigE
        /\ done[2].self.niter = done[1].self.niter
        /\ done[2].self.llik = done[1].self.llik

\* C11: when SUR raises for spat_diag without weights, nothing has been
\* computed yet: no cross-product, no seed solve, no joint solve and no other
\* diagnostic.
C11_WeightsCheckedFirst ==
    (pc = "raise" /\ err = WeightsNeeded) =>
        /\ hist.sur_crossprod = 0
        /\ hist.seed = 0
        /\ hist.sur_est = <<>>
        /\ self.sur_inf = NoTest
        /\ self.lrtest = NoTest
        /\ self.lmtest = NoTest

\* C12: a construction of SUR with spat_diag and without w ends with an error
\* and hands no estimator to the caller; on sound input, soundly expanded, the
\* error is 'Error: spatial weights needed'.  Without spat_diag that error is never raised, w
\* given or not, and lmEtest and lmlagtest are None.
C12_SpatialWeights ==
    /\ \A i \in DOMAIN done :
          (done[i].cfg.cls = "SUR" /\ done[i].cfg.spat_diag /\ ~done[i].cfg.w) =>
              /\ done[i].err # ""
              /\ done[i].obj = BlankSelf
              /\ (SoundSUR(done[i].cfg, done[i].given) /\ WellExpanded(done[i].after))
                    => done[i].err = WeightsNeeded
    /\ (cfg.cls = "SUR" /\ ~cfg.spat_diag) =>
          /\ err # WeightsNeeded
          /\ pc \in {"chow", "summary", "return"} =>
                self.lmEtest = NoTest /\ self.lmlagtest = NoTest
          /\ (SoundSUR(cfg, given) /\ WellExpanded(args) /\ ~cfg.w) => pc # "raise"

C12_Witness ==
    /\ Len(done) = 1
    /\ done[1].cfg.spat_diag /\ ~done[1].cfg.w
    /\ done[1].err = WeightsNeeded
    /\ done[1].self.llik # NoNum

\* C13: a construction of SUR or ThreeSLS from dictionaries that disagree in
\* their keys or in their row counts computes no cross-product and no solve,
\* and does not return.
C13_MismatchFailsFirst ==
    (cfg.cls \in {"SUR", "ThreeSLS"} /\ given \in MismatchedArgSets) =>
        /\ self.bigXX = NoDict
        /\ self.bigZHZH = NoDict
        /\ hist.seed = 0
        /\ hist.sur_est = <<>>
        /\ pc # "return"

\* C14: in a construction of ThreeSLS on data where the inversion of some
\* H_r'H_r fails, no cross-product of Z-hat, no 2SLS seed solve and no joint
\* solve is made and b3SLS, varb and sig are never set; the construction ends
\* in the projection step with 'ERROR: singular cross product matrix, check
\* instruments', and the caller holds no estimator.
C14_SingularInstruments ==
    /\ (cfg.cls = "ThreeSLS" /\ args.singular.of \in {"XX", "HH"}) =>
          /\ hist.sur_crossprod = 0
          /\ self.bigZHZH = NoDict
          /\ hist.seed = 0
          /\ hist.sur_est = <<>>
          /\ self.b3SLS = None /\ self.varb = None /\ self.sig = None
          /\ pc \notin {"crossprod", "2sls", "3sls", "inference", "chow",
                        "summary", "return"}
          /\ (pc = "raise" /\ loc.bigH # NoDict) => err = SingularInstruments
    /\ \A i \in DOMAIN done :
          (/\ done[i].cfg.cls = "ThreeSLS"
           /\ done[i].given.singular.of \in {"XX", "HH"}
           /\ FormError(done[i].cfg, {"bigy", "bigX", "bigyend", "bigq"},
                        ThreeSLS_Messages) = "") =>
              /\ done[i].err = SingularInstruments
              /\ done[i].obj = BlankSelf

C14_Witness ==
    /\ pc = "raise"
    /\ cfg.cls = "ThreeSLS" /\ cfg.regimes
    /\ args.singular = [of |-> "HH", r |-> NEq - 1]
    /\ self.bigK # NoDict
    /\ err = SingularInstruments

\* the error the specification requires of a seed solve that cannot invert the
\* cross-product of equation r
SingularDesign(r) ==
    CASE r = 0 -> "singular design matrix: equation 0"
      [] r = 1 -> "singular design matrix: equation 1"
      [] r = 2 -> "singular design matrix: equation 2"
      [] OTHER -> "singular design matrix: equation 3 or later"

\* C15: when the per-equation seed solve (_sur_ols for SUR, _sur_2sls for
\* ThreeSLS) cannot invert the diagonal cross-product of equation r, the
\* construction ends with a 'singular design matrix' error that names r.
C15_SingularDesignNamed ==
    (pc = "raise" /\ hist.seed = 1 /\ hist.sur_est = <<>>) =>
        err = SingularDesign(args.singular.r)

\* C16: an error raised in a construction of SUR or ThreeSLS is the next thing
\* the caller sees: no step of the construction follows it, nothing more is
\* computed, the message is the one raised, and the caller holds no estimator
\* and none of the values computed before the error.
C16_ErrorsPropagate ==
    /\ [](err # "" => pc \in {"raise", "idle"})
    /\ [](pc = "raise" => err # "")
    /\ [](\A i \in DOMAIN done : done[i].err # "" => done[i].obj = BlankSelf)
    /\ [][pc = "raise" =>
            /\ pc' = "idle"
            /\ done' = Append(done, done'[Len(done')])
            /\ done'[Len(done')].err = err
            /\ self' = self /\ hist' = hist /\ err' = err]_vars

C16_Witness ==
    /\ Len(done) = 1
    /\ done[1].err = LinAlgError
    /\ done[1].cfg.regimes
    /\ done[1].self.bigZHZH # NoDict
    /\ done[1].obj = BlankSelf

\* C17: in SUR and in ThreeSLS, once the Chow step is passed surchow is the
\* test computed from n_eq, bigK, the coefficients and varb when all equations
\* have the same number of regressors, and None otherwise; the step raises
\* nothing and the construction goes on to the summary and returns.
C17_ChowIffEqualK ==
    /\ []((cfg.cls \in {"SUR", "ThreeSLS"} /\ pc \in {"summary", "return"}) =>
            /\ err = ""
            /\ check_k(self.bigK) <=> self.surchow # NoTest
            /\ check_k(self.bigK) =>
                  self.surchow = sur_chow(self.n_eq, self.bigK,
                                          IF cfg.cls = "SUR" THEN self.bSUR
                                                             ELSE self.b3SLS,
                                          self.varb))
    /\ [][/\ pc = "chow" => pc' = "summary"
          /\ pc = "summary" => pc' = "return"]_vars

C17_Witness ==
    /\ Returning
    /\ cfg.cls = "SUR" /\ cfg.regimes
    /\ ~check_k(self.bigK)
    /\ self.surchow = NoTest
    /\ self.chow_regimes # NoDict

\* C18: no step taken after BaseSUR.__init__ or BaseThreeSLS.__init__ has
\* returned (inference, LR, LM, spatial LM, Chow, regime Chow, summary, the
\* return or the raise for missing weights) changes bSUR, b3SLS, varb, sig,
\* sig_ols, bigE, bigYP, ldetS0, ldetS1, llik or niter.
C18_DiagnosticsReportOnly ==
    [][(pc \in PostStages) => (FittedModel' = FittedModel)]_vars

C18_Witness ==
    /\ Returning
    /\ cfg.cls = "SUR" /\ cfg.iter /\ cfg.regimes
    /\ Passes >= 1
    /\ self.lrtest # NoTest /\ self.lmlagtest # NoTest /\ self.surchow # NoTest
    /\ self.sig # self.sig_ols

\* C19: from the end of the set-up of BaseSUR.__init__ on, sur_crossprod has
\* been called exactly once, bigXX and bigXy are the cross-products that call
\* stored and no step changes them, and every joint solve made, the two-step
\* one and that of every pass, was passed those stored cross-products.
C19_CrossprodOnce ==
    /\ [](pc \in {"ols", "twostep", "if_iter", "while", "finish", "return"} =>
            /\ hist.sur_crossprod = 1
            /\ self.bigXX = sur_crossprod(given.bigX, given.bigy).bigXX
            /\ self.bigXy = sur_crossprod(given.bigX, given.bigy).bigXy
            /\ Len(hist.xp) = Len(hist.sur_est)
            /\ \A i \in DOMAIN hist.xp : hist.xp[i] = <<self.bigXX, self.bigXy>>)
    /\ [][(pc \in {"ols", "twostep", "if_iter", "while", "finish", "return"}) =>
            (self'.bigXX = self.bigXX /\ self'.bigXy = self.bigXy)]_vars

C19_Witness ==
    /\ Returning /\ cfg.iter
    /\ Len(hist.xp) = 3
    /\ hist.sur_crossprod = 1
    /\ hist.seed = 1

\* C20: a construction of ThreeSLS makes the 2SLS seed solve once and the joint
\* solve once, on the 2SLS residuals: sig is the Sigma of those residuals and
\* is not estimated again from the residuals of b3SLS; no iteration count is
\* kept (niter is never set, and neither are the locals of the loop of BaseSUR).
C20_ThreeSLSNotIterated ==
    cfg.cls = "ThreeSLS" =>
        /\ hist.seed <= 1
        /\ Len(hist.sur_est) <= 1
        /\ self.niter = NoNum
        /\ loc.n_iter = NoNum /\ loc.det0 = NoNum /\ loc.det1 = NoNum
        /\ pc \in PostStages =>
              /\ hist.seed = 1
              /\ hist.sur_est = <<self.tslsE>>
              /\ self.tslsE = sur_resids(self.bigy, self.bigZ, self.b2SLS)
              /\ self.b2SLS = [kind |-> "b", g |-> 0]
              /\ self.b3SLS = [kind |-> "b", g |-> 1]
              /\ self.sig = [kind |-> "S", g |-> 0]
              /\ self.bigE = sur_resids(self.bigy, self.bigZ, self.b3SLS)

C20_Witness ==
    /\ Returning
    /\ cfg.cls = "ThreeSLS" /\ cfg.regimes
    /\ hist.sur_est = <<self.tslsE>>
    /\ self.bigE # self.tslsE

\* C21: in a construction of SUR the regime expansion (made when regimes is
\* given, and only then) precedes the cross-products, which are those of the
\* expanded X; the cross-products precede the OLS seed, the seed the joint
\* solves, the joint solves the final residuals and predictions; a diagnostic
\* exists only when residuals, predictions, llik and niter of the finished
\* estimation do, and no solve is made from then on.
C21_StageOrder ==
    /\ []((cfg.cls = "SUR" /\ pc # "idle") =>
            /\ hist.sur_crossprod >= 1 =>
                  \A r \in 0 .. (self.n_eq - 1) :
                      /\ IF cfg.regimes
                         THEN /\ args.bigX[r].cols = given.bigX[r].cols * NRegimes
                              /\ args.bigX[r].exp = given.bigX[r].exp + 1
                              /\ self.bigXX # NoDict =>
                                     args.bigX[r] = Regimes_Frame(given.bigX[r])
                         ELSE args.bigX[r] = given.bigX[r]
                      /\ self.bigXX # NoDict => self.bigXX.X[r] = args.bigX[r]
            /\ hist.sur_crossprod = 0 => hist.seed = 0
            /\ hist.seed >= 1 => (hist.sur_crossprod = 1 /\ self.bigXX # NoDict)
            /\ hist.seed = 0 => hist.sur_est = <<>>
            /\ hist.sur_est # <<>> => self.olsE # None
            /\ hist.sur_est = <<>> => (self.bigE = None /\ self.bigYP = None)
            /\ self.bigYP # None => self.bigE # None
            /\ SomeDiagnostic =>
                  /\ pc \in PostStages \cup {"raise"}
                  /\ self.niter # NoNum /\ self.llik # NoNum
                  /\ self.bigE = sur_resids(self.bigy, self.bigX, LastEst.b)
                  /\ self.bigYP = sur_predict(self.bigy, self.bigX, LastEst.b))
    /\ [][(cfg.cls = "SUR" /\ pc \in PostStages) => (hist' = hist)]_vars

C21_Witness ==
    /\ Returning
    /\ cfg.cls = "SUR" /\ cfg.regimes /\ cfg.iter
    /\ Passes >= 1
    /\ self.lrtest # NoTest /\ self.chow_regimes # NoDict
    /\ self.bigXX.X[0] # given.bigX[0]

\* C22: once a construction of SUR or ThreeSLS is past its first step: with
\* some but not all positional arguments lists it has raised the 'both/all
\* lists or dictionaries' error, whatever the lengths and df; with all of them
\* lists of unequal lengths, the 'same number of elements' error, whatever
\* df; with all of them lists of one length and no df, the 'df argument is
\* required' error; in each case before anything was computed.  With no list
\* none of the three errors is raised.
C22_FormPrecedence ==
    (cfg.cls \in {"SUR", "ThreeSLS"} /\ pc \notin {"idle", cfg.cls}) =>
        LET all == Positional(cfg.cls)
            msg == Messages(cfg.cls)
            some == cfg.lists # {} /\ cfg.lists # all
            rejected == /\ pc = "raise"
                        /\ self = BlankSelf /\ hist = BlankHist /\ args = given
        IN  /\ some => (rejected /\ err = msg.mixed)
            /\ (cfg.lists = all /\ ~cfg.same_len) => (rejected /\ err = msg.len)
            /\ (cfg.lists = all /\ cfg.same_len /\ ~cfg.df) =>
                   (rejected /\ err = msg.df)
            /\ (cfg.lists = all /\ cfg.same_len /\ cfg.df) =>
                   err \notin {msg.mixed, msg.len, msg.df}
            /\ cfg.lists = {} => err \notin {msg.mixed, msg.len, msg.df}

C22_Witness ==
    /\ pc = "raise"
    /\ cfg.cls = "ThreeSLS"
    /\ cfg.lists = {"bigy", "bigX"} /\ ~cfg.same_len /\ ~cfg.df
    /\ err = ThreeSLS_Messages.mixed

\* the expanded matrices the running construction holds do not all have the n
\* rows of bigy
BadExpansion ==
    /\ cfg.regimes
    /\ pc \notin {"idle", cfg.cls, "regimes"}
    /\ given \in ArgSets \cup SingularArgSets
    /\ \E r \in 0 .. (n_eq_of(args.bigy) - 1) : args.bigX[r].rows # args.bigy[0].rows

\* C23: with regimes given, expanded matrices whose row count is not n never
\* reach the cross-product builder: the construction has raised before
\* sur_crossprod is called.
C23_ExpansionValidated ==
    (cfg.cls \in {"SUR", "ThreeSLS"} /\ BadExpansion) =>
        /\ hist.sur_crossprod = 0
        /\ pc \in {"raise", "BaseSUR", "BaseThreeSLS"}

\* C25: once the non-spatial diagnostics of SUR are past, with nonspat_diag the
\* LR test is sur_lrtest(n, n_eq, ldetS0, ldetS1), ldetS0 the sum of the logs of
\* the diagonal of the Sigma of the OLS residuals and ldetS1 the log-determinant
\* of the Sigma of the last joint solve, and the LM test is sur_lmtest(n, n_eq,
\* sig_ols), sig_ols the Sigma of the OLS residuals whatever iter; without
\* nonspat_diag there is neither test.
C25_NonSpatTests ==
    (cfg.cls = "SUR" /\ pc \in {"spat", "chow", "summary", "return"}) =>
        LET olsSig == sur_est(self.bigXX, self.bigXy, [kind |-> "E", g |-> 0],
                              self.bigK).sig
        IN  IF cfg.nonspat_diag
              THEN /\ self.lrtest = sur_lrtest(self.n, self.n_eq, DiagLdet(olsSig),
                                               FullLdet(LastEst.sig))
                   /\ self.lmtest = sur_lmtest(self.n, self.n_eq, olsSig)
                   /\ self.sig_ols = olsSig
                   /\ self.sig = LastEst.sig
              ELSE self.lrtest = NoTest /\ self.lmtest = NoTest

C25_Witness ==
    /\ Returning
    /\ cfg.cls = "SUR" /\ cfg.iter /\ cfg.nonspat_diag
    /\ Passes >= 1
    /\ self.sig # self.sig_ols
    /\ self.lmtest # sur_lmtest(self.n, self.n_eq, self.sig)
    /\ self.ldetS1 # self.ldetS0

\* the coefficients a finished construction holds
Coefficients == IF cfg.cls = "ThreeSLS" THEN self.b3SLS ELSE self.bSUR

\* rows (and columns) of varb: one per coefficient of every equation
VarbDim ==
    LET RECURSIVE total(_)
        total(eqs) == IF eqs = {} THEN 0
                      ELSE LET r == CHOOSE q \in eqs : TRUE
                           IN  self.bigK[r] + total(eqs \ {r})
    IN  total(0 .. (self.n_eq - 1))

\* C26: a construction of SUR or ThreeSLS with regimes returns chow_regimes
\* with one entry for each equation 0 .. n_eq-1, entry r made from the
\* coefficients of equation r and the block [lo_r, hi_r) of varb, where lo_0 = 0,
\* hi_r - lo_r = k_r, lo_(r+1) = hi_r and hi of the last equation is the
\* dimension of varb, so that the blocks are disjoint; without regimes there is
\* no chow_regimes.
C26_ChowRegimesBlocks ==
    (Returning /\ cfg.cls \in {"SUR", "ThreeSLS"}) =>
        IF cfg.regimes
        THEN LET eqs == 0 .. (self.n_eq - 1)
                 lo(r) == self.chow_regimes[r].of[6]
                 hi(r) == self.chow_regimes[r].of[7]
             IN  /\ DOMAIN self.chow_regimes = eqs
                 /\ \A r \in eqs :
                       /\ self.chow_regimes[r].of[3] = Coefficients
                       /\ self.chow_regimes[r].of[4] = r
                       /\ self.chow_regimes[r].of[5] = self.varb
                       /\ hi(r) - lo(r) = self.bigK[r]
                       /\ r = 0 => lo(r) = 0
                       /\ r > 0 => lo(r) = hi(r - 1)
                       /\ r = self.n_eq - 1 => hi(r) = VarbDim
                 /\ \A r, q \in eqs : r < q => hi(r) <= lo(q)
        ELSE self.chow_regimes = NoDict

C26_Witness ==
    /\ Returning
    /\ cfg.cls = "ThreeSLS" /\ cfg.regimes
    /\ self.bigK[0] # self.bigK[1]
    /\ self.chow_regimes[1].of[6] = self.bigK[0]
    /\ self.chow_regimes[1].of[7] = self.bigK[0] + self.bigK[1]

\* every output of BaseSUR.__init__ but niter
SameButNiter(a, b) ==
    /\ a.bSUR = b.bSUR /\ a.varb = b.varb /\ a.sig = b.sig
    /\ a.sig_ols = b.sig_ols /\ a.ldetS0 = b.ldetS0 /\ a.ldetS1 = b.ldetS1
    /\ a.bigE = b.bigE /\ a.bigYP = b.bigYP /\ a.corr = b.corr
    /\ a.llik = b.llik

C28_OutputsOfLastSolve ==
    (Returning /\ cfg.cls = "BaseSUR") =>
        /\ self.bSUR = LastEst.b
        /\ self.varb = LastEst.varb
        /\ self.sig = LastEst.sig
        /\ self.bigE = sur_resids(self.bigy, self.bigX, self.bSUR)
        /\ self.bigYP = sur_predict(self.bigy, self.bigX, self.bSUR)
        /\ LET last == Len(hist.sur_est)
           IN  hist.sur_est[last] =
                   IF Passes = 0 THEN self.olsE
                   ELSE sur_resids(self.bigy, self.bigX,
                                   sur_est(self.bigXX, self.bigXy, hist.sur_est[last - 1],
                                           self.bigK).b)
        /\ self.sig # sur_est(self.bigXX, self.bigXy, self.bigE, self.bigK).sig

C28_Witness ==
    /\ Returning /\ cfg.cls = "BaseSUR" /\ cfg.iter
    /\ Passes = 2
    /\ self.sig = [kind |-> "S", g |-> 2]
    /\ self.bigE = [kind |-> "E", g |-> 3]

\* C29: in a call of symmetrize the row sums are taken with w.transform 'B'
\* and the result is built with w.transform 'r'; when the call has returned
\* w.transform is 'r' whatever it was on entry, the transform saved on entry
\* being put back at no point.
C29_TransformLeftRowStandardized ==
    /\ sym.pc \in {"line20", "line23", "line25"} => w.transform = "B"
    /\ sym.pc \in {"line23", "line25", "line26"} => sym.d.of.transform = "B"
    /\ sym.pc = "line26" => w.transform = "r"
    /\ \A i \in DOMAIN sym.returned :
          /\ sym.returned[i].result[1].of.of.transform = "B"
          /\ sym.returned[i].result[2].transform = "r"
          /\ sym.returned[i].result[3].of.of.transform = "B"
          /\ sym.returned[i].w.transform = "r"
    /\ (sym.pc = "idle" /\ sym.returned # <<>>) => w.transform = "r"

C29_Witness ==
    /\ sym.pc = "idle"
    /\ Len(sym.returned) = 1
    /\ sym.returned[1].entry = "O"
    /\ w.transform = "r"

\* C30: in a construction of ThreeSLS, Zhat_r is X_r stacked with yend_r fitted
\* on the instruments [X_r, q_r] and Z_r is X_r stacked with yend_r; the
\* cross-products, which the 2SLS seed and the joint solve read, are those of
\* Zhat, never of Z; the residuals tslsE and bigE are taken on Z; and for every
\* equation bigK[r] = cols(X_r) + cols(yend_r) = cols(Zhat_r), the order of the
\* system b2SLS[r] and b3SLS[r] solve.
C30_InstrumentedDesign ==
    (cfg.cls = "ThreeSLS" /\ pc \in {"2sls", "3sls"} \cup PostStages) =>
        LET eqs == 0 .. (self.n_eq - 1)
            Z(r) == sphstack(args.bigX[r], args.bigyend[r])
            H(r) == sphstack(args.bigX[r], args.bigq[r])
            Zhat == [r \in eqs |->
                        sphstack(args.bigX[r], Fitted(H(r), args.bigyend[r]))]
        IN  /\ \A r \in eqs :
                  /\ self.bigZ[r] = Z(r)
                  /\ self.bigK[r] = args.bigX[r].cols + args.bigyend[r].cols
                  /\ self.bigK[r] = Zhat[r].cols
                  /\ self.bigZHZH.X[r].cols = self.bigK[r]
                  /\ self.bigZHy.X[r].cols = self.bigK[r]
            /\ self.bigZHZH = sur_crossprod(Zhat, self.bigy).bigXX
            /\ self.bigZHy = sur_crossprod(Zhat, self.bigy).bigXy
            /\ self.bigZHZH # sur_crossprod(self.bigZ, self.bigy).bigXX
            /\ hist.sur_crossprod = 1
            /\ pc \in {"3sls"} \cup PostStages =>
                  /\ hist.seed = 1
                  /\ self.tslsE = sur_resids(self.bigy, self.bigZ, self.b2SLS)
                  /\ hist.resid_on[1] = self.bigZ
            /\ pc \in PostStages =>
                  /\ hist.xp = <<<<self.bigZHZH, self.bigZHy>>>>
                  /\ hist.sur_est = <<self.tslsE>>
                  /\ self.bigE = sur_resids(self.bigy, self.bigZ, self.b3SLS)
                  /\ hist.resid_on = <<self.bigZ, self.bigZ>>

C30_Witness ==
    /\ Returning
    /\ cfg.cls = "ThreeSLS" /\ ~cfg.regimes
    /\ self.bigK[0] # self.bigK[1]
    /\ loc.bigZhat[0] # self.bigZ[0]
    /\ hist.resid_on = <<self.bigZ, self.bigZ>>
    /\ self.bigZHZH.X = loc.bigZhat

====
